---- MODULE Spec2Model ----
(***************************************************************************)
(* The interchain-accounts keeper (27-interchain-accounts/keeper/keeper.go) *)
(* as a state machine over its key-value store and its collaborators.      *)
(* Strings and byte strings are sequences of one-character strings, so     *)
(* that key construction, the prefix scan and strings.Split are computed   *)
(* rather than assumed.                                                    *)
(***************************************************************************)
EXTENDS Naturals, Sequences, FiniteSets

VARIABLES
    keeperState,  \* "unbuilt" | "ready" | "panicked": outcome of NewKeeper
    moduleAddr,   \* accountKeeper.GetModuleAddress(types.ModuleName); <<>> is nil
    store,        \* ctx.KVStore(k.storeKey): a set of <<key, value>> records
    caps,         \* capability collaborator: <<name, index>> of the live capabilities
    claimed,      \* capability collaborator: <<index, name>> claimed by this module
    nextCap,      \* capability collaborator: index of the next capability issued
    lastOp,       \* the last keeper call: its name, arguments and return value
    activeHist,   \* per port, the SetActiveChannelID/DeleteActiveChannelID calls made
    addrHist,     \* per port, the addresses passed to SetInterchainAccountAddress
    bindHist,     \* the ports passed to BindPort calls that completed
    nops          \* number of keeper calls made so far

vars == <<keeperState, moduleAddr, store, caps, claimed, nextCap, lastOp,
          activeHist, addrHist, bindHist, nops>>

----------------------------------------------------------------------------
(* Bounds and input sets *)

\* Number of keeper calls explored after construction.
MaxOps == 3

\* Port identifiers offered to the keeper: two that satisfy the host
\* identifier grammar and one that holds the path separator, which the keeper
\* itself never rejects.
PortIDs == { <<"a">>, <<"b">>, <<"a", "/", "b">> }

ChannelIDs == { <<"c", "0">>, <<"c", "1">> }

Addresses == { <<"x">>, <<"y">> }

\* What the account collaborator may report for the module account.
ModuleAddrs == { <<>>, <<"m">> }

Orders == { "ORDERED", "UNORDERED" }

ConnectionIDs == { <<"k", "0">>, <<"k", "1">> }

----------------------------------------------------------------------------
(* Byte strings *)

\* Byte value of the characters that occur in store keys.
CharCode(c) ==
    CASE c = "/" -> 47
      [] c = "0" -> 48
      [] c = "1" -> 49
      [] c = "_" -> 95
      [] c = "a" -> 97
      [] c = "b" -> 98
      [] c = "c" -> 99
      [] c = "e" -> 101
      [] c = "h" -> 104
      [] c = "i" -> 105
      [] c = "l" -> 108
      [] c = "n" -> 110
      [] c = "o" -> 111
      [] c = "p" -> 112
      [] c = "r" -> 114
      [] c = "t" -> 116
      [] c = "u" -> 117
      [] c = "v" -> 118
      [] c = "w" -> 119

RECURSIVE BytesLess(_, _)
\* bytes.Compare(s, t) < 0: the order in which the store iterates its keys.
BytesLess(s, t) ==
    IF t = <<>> THEN FALSE
    ELSE IF s = <<>> THEN TRUE
    ELSE IF Head(s) = Head(t) THEN BytesLess(Tail(s), Tail(t))
    ELSE CharCode(Head(s)) < CharCode(Head(t))

HasPrefix(s, prefix) ==
    /\ Len(prefix) <= Len(s)
    /\ SubSeq(s, 1, Len(prefix)) = prefix

RECURSIVE SplitFrom(_, _, _)
\* strings.Split(s, sep) for a one-character sep, with cur the segment being read.
SplitFrom(s, sep, cur) ==
    IF s = <<>> THEN << cur >>
    ELSE IF Head(s) = sep THEN << cur >> \o SplitFrom(Tail(s), sep, <<>>)
    ELSE SplitFrom(Tail(s), sep, Append(cur, Head(s)))

Split(s, sep) == SplitFrom(s, sep, <<>>)

----------------------------------------------------------------------------
(* Store keys (types/keys.go) and host paths *)

PortKeyPrefix == << "p", "o", "r", "t" >>

ActiveChannelKeyPrefix ==
    << "a", "c", "t", "i", "v", "e", "_", "c", "h", "a", "n", "n", "e", "l" >>

OwnerKeyPrefix ==
    << "o", "w", "n", "e", "r", "_", "a", "c", "c", "o", "u", "n", "t" >>

KeyPort(portID) == PortKeyPrefix \o << "/" >> \o portID

KeyActiveChannel(portID) == ActiveChannelKeyPrefix \o << "/" >> \o portID

KeyOwnerAccount(portID) == OwnerKeyPrefix \o << "/" >> \o portID

\* host.PortPath
PortPath(portID) == << "p", "o", "r", "t", "s" >> \o << "/" >> \o portID

\* The value BindPort stores under a port key: []byte{0x01}.
PortSentinel == << "0x01" >>

----------------------------------------------------------------------------
(* The key-value store *)

StoreHas(s, key) == \E kv \in s : kv[1] = key

StoreGet(s, key) == (CHOOSE kv \in s : kv[1] = key)[2]

StoreSet(s, key, value) == { kv \in s : kv[1] # key } \cup { << key, value >> }

StoreDelete(s, key) == { kv \in s : kv[1] # key }

RECURSIVE SortKeys(_)
\* The keys of a set in ascending byte order.
SortKeys(keys) ==
    IF keys = {} THEN <<>>
    ELSE LET least == CHOOSE k \in keys : \A other \in keys \ {k} : BytesLess(k, other)
         IN  << least >> \o SortKeys(keys \ {least})

\* sdk.KVStorePrefixIterator: the keys that start with prefix, ascending.
KVStorePrefixIterator(s, prefix) ==
    SortKeys({ kv[1] : kv \in { r \in s : HasPrefix(r[1], prefix) } })

----------------------------------------------------------------------------
(* Collaborators: capability keeper, port keeper, account keeper, types *)

\* scopedKeeper.GetCapability(ctx, name): the live capability of that name.
GetCapability(name) ==
    IF \E c \in caps : c[1] = name
    THEN [cap |-> (CHOOSE c \in caps : c[1] = name)[2], found |-> TRUE]
    ELSE [cap |-> 0, found |-> FALSE]

\* portKeeper.BindPort(ctx, portID): the outcomes the port collaborator can produce.
\* A port with no live capability gets a fresh one; for a port that is already
\* bound the collaborator either hands back the capability it holds or fails.
\* The collaborator may also refuse a bind for reasons of its own.
PortKeeperBindPort(portID) ==
    LET got == GetCapability(PortPath(portID))
        failed == [ok |-> FALSE, cap |-> 0, caps |-> caps, nextCap |-> nextCap]
    IN  IF got.found
        THEN { [ok |-> TRUE, cap |-> got.cap, caps |-> caps, nextCap |-> nextCap],
               failed }
        ELSE { [ok |-> TRUE, cap |-> nextCap,
                caps |-> caps \cup { << PortPath(portID), nextCap >> },
                nextCap |-> nextCap + 1],
               failed }

\* scopedKeeper.ClaimCapability(ctx, cap, name): nil unless the capability is
\* gone or already claimed.
ScopedClaimCapability(cap, name) ==
    IF /\ \E c \in caps : c[2] = cap
       /\ ~ \E cl \in claimed : cl[1] = cap
    THEN [ok |-> TRUE, claimed |-> claimed \cup { << cap, name >> }]
    ELSE [ok |-> FALSE, claimed |-> claimed]

\* scopedKeeper.AuthenticateCapability(ctx, cap, name)
ScopedAuthenticateCapability(cap, name) == << cap, name >> \in claimed

\* types.VersionPrefix
VersionPrefix == << "i", "c", "s", "2", "7", "-", "1" >>

\* types.GenerateAddress(moduleAccAddr, portID): a deterministic derivation,
\* kept symbolic; distinct inputs give distinct addresses.
GenerateAddress(moduleAccAddr, portID) == [base |-> moduleAccAddr, seed |-> portID]

\* sdk.AccAddress.String()
AccAddressString(addr) == << "<" >> \o addr.base \o << "|" >> \o addr.seed \o << ">" >>

\* types.NewAppVersion(versionPrefix, accAddr)
NewAppVersion(versionPrefix, accAddr) == versionPrefix \o << "/" >> \o accAddr

\* The versions a counterparty may propose: the supported one, the empty
\* string, one with the prefix as its start, one cut short, and every string
\* that differs from the prefix in one character.
ProposedVersions ==
    { <<>>, VersionPrefix, VersionPrefix \o << "x" >>,
      SubSeq(VersionPrefix, 1, Len(VersionPrefix) - 1) }
    \cup { [VersionPrefix EXCEPT ![i] = "x"] : i \in 1..Len(VersionPrefix) }

----------------------------------------------------------------------------
(* Return values of the keeper's reads in the current state *)

NoError == [kind |-> "nil", expected |-> <<>>, got |-> <<>>]

\* GetAllPorts reading keySplit[0] instead of keySplit[1].
GetAllPortsFirstSegment ==
    LET keys == KVStorePrefixIterator(store, PortKeyPrefix)
    IN  [i \in 1..Len(keys) |-> Split(keys[i], "/")[1]]

GetAllPorts ==
    LET keys == KVStorePrefixIterator(store, PortKeyPrefix)
    IN  [i \in 1..Len(keys) |-> Split(keys[i], "/")[2]]

\* IsBound looking the capability up under the port identifier, not its path.
IsBoundByPortID(portID) == GetCapability(portID).found

\* IsBound answering from the persisted port record instead of the capability.
IsBoundByPortRecord(portID) == StoreHas(store, KeyPort(portID))

IsBound(portID) == GetCapability(PortPath(portID)).found

\* AuthenticateCapability applying host.PortPath to a name that is a path already.
AuthenticateCapabilityRewrapped(cap, name) ==
    ScopedAuthenticateCapability(cap, PortPath(name))

AuthenticateCapability(cap, name) == ScopedAuthenticateCapability(cap, name)

\* GetActiveChannelID without the store.Has test: it converts whatever store.Get
\* gives and reports the record as found.
GetActiveChannelIDNoHasCheck(portID) ==
    LET key == KeyActiveChannel(portID)
    IN  << IF StoreHas(store, key) THEN StoreGet(store, key) ELSE <<>>, TRUE >>

GetActiveChannelID(portID) ==
    LET key == KeyActiveChannel(portID)
    IN  IF ~ StoreHas(store, key) THEN << <<>>, FALSE >>
        ELSE << StoreGet(store, key), TRUE >>

IsActiveChannel(portID) == GetActiveChannelID(portID)[2]

\* GetInterchainAccountAddress reading the active-channel key.
GetInterchainAccountAddressWrongKey(portID) ==
    LET key == KeyActiveChannel(portID)
    IN  IF ~ StoreHas(store, key) THEN << <<>>, FALSE >>
        ELSE << StoreGet(store, key), TRUE >>

GetInterchainAccountAddress(portID) ==
    LET key == KeyOwnerAccount(portID)
    IN  IF ~ StoreHas(store, key) THEN << <<>>, FALSE >>
        ELSE << StoreGet(store, key), TRUE >>

\* NegotiateAppVersion returning the address stored for the counterparty port
\* when there is one.
NegotiateAppVersionStoredAddress(order, connectionID, portID, counterparty, proposedVersion) ==
    IF proposedVersion # VersionPrefix
    THEN [version |-> <<>>,
          err |-> [kind |-> "ErrInvalidVersion", expected |-> VersionPrefix,
                   got |-> proposedVersion]]
    ELSE LET accAddr == GenerateAddress(moduleAddr, counterparty.PortId)
             stored == GetInterchainAccountAddress(counterparty.PortId)
         IN  [version |-> NewAppVersion(VersionPrefix,
                              IF stored[2] THEN stored[1]
                              ELSE AccAddressString(accAddr)),
              err |-> NoError]

\* NegotiateAppVersion deriving the address from the local port identifier.
NegotiateAppVersionLocalPort(order, connectionID, portID, counterparty, proposedVersion) ==
    IF proposedVersion # VersionPrefix
    THEN [version |-> <<>>,
          err |-> [kind |-> "ErrInvalidVersion", expected |-> VersionPrefix,
                   got |-> proposedVersion]]
    ELSE LET accAddr == GenerateAddress(moduleAddr, portID)
         IN  [version |-> NewAppVersion(VersionPrefix, AccAddressString(accAddr)),
              err |-> NoError]

\* NegotiateAppVersion accepting any version that starts with the prefix.
NegotiateAppVersionPrefixMatch(order, connectionID, portID, counterparty, proposedVersion) ==
    IF ~ HasPrefix(proposedVersion, VersionPrefix)
    THEN [version |-> <<>>,
          err |-> [kind |-> "ErrInvalidVersion", expected |-> VersionPrefix,
                   got |-> proposedVersion]]
    ELSE LET accAddr == GenerateAddress(moduleAddr, counterparty.PortId)
         IN  [version |-> NewAppVersion(VersionPrefix, AccAddressString(accAddr)),
              err |-> NoError]

NegotiateAppVersion(order, connectionID, portID, counterparty, proposedVersion) ==
    IF proposedVersion # VersionPrefix
    THEN [version |-> <<>>,
          err |-> [kind |-> "ErrInvalidVersion", expected |-> VersionPrefix,
                   got |-> proposedVersion]]
    ELSE LET moduleAccAddr == moduleAddr
             accAddr == GenerateAddress(moduleAccAddr, counterparty.PortId)
         IN  [version |-> NewAppVersion(VersionPrefix, AccAddressString(accAddr)),
              err |-> NoError]

----------------------------------------------------------------------------
(* The keeper's operations as actions *)

Called(op, port, arg, ret, ok) ==
    [op |-> op, port |-> port, arg |-> arg, ret |-> ret, ok |-> ok]

\* The keeper exists and the exploration bound is not used up.
Ready == keeperState = "ready" /\ nops < MaxOps

\* The capabilities issued so far, live or not.
IssuedCaps == { i \in 0..MaxOps : i < nextCap }

Init ==
    /\ keeperState = "unbuilt"
    /\ moduleAddr \in ModuleAddrs
    /\ store = {}
    /\ caps = {}
    /\ claimed = {}
    /\ nextCap = 0
    /\ lastOp = Called("none", <<>>, <<>>, <<>>, TRUE)
    /\ activeHist = [p \in PortIDs |-> <<>>]
    /\ addrHist = [p \in PortIDs |-> <<>>]
    /\ bindHist = <<>>
    /\ nops = 0

\* NewKeeper without the module-address check: it always returns a keeper.
NewKeeperUnchecked ==
    /\ keeperState = "unbuilt"
    /\ keeperState' = "ready"
    /\ lastOp' = Called("NewKeeper", <<>>, <<>>, <<>>, TRUE)
    /\ UNCHANGED << moduleAddr, store, caps, claimed, nextCap, activeHist,
                    addrHist, bindHist, nops >>

NewKeeper ==
    /\ keeperState = "unbuilt"
    /\ keeperState' = IF moduleAddr = <<>> THEN "panicked" ELSE "ready"
    /\ lastOp' = Called("NewKeeper", <<>>, <<>>, <<>>, moduleAddr # <<>>)
    /\ UNCHANGED << moduleAddr, store, caps, claimed, nextCap, activeHist,
                    addrHist, bindHist, nops >>

\* A read: nothing but the record of the call changes.
Returns(op, port, arg, ret, ok) ==
    /\ Ready
    /\ lastOp' = Called(op, port, arg, ret, ok)
    /\ nops' = nops + 1
    /\ UNCHANGED << keeperState, moduleAddr, store, caps, claimed, nextCap,
                    activeHist, addrHist, bindHist >>

GetAllPortsCall == Returns("GetAllPorts", <<>>, <<>>, GetAllPorts, TRUE)

\* The store write, then the port keeper's bind. When the bind fails the call
\* panics and the host discards the writes of the aborted unit of work.
\* The host's unit of work around one operation: the writes of an operation
\* that completed are kept, those of one that failed are discarded.
HostUnitOfWork(before, after, completed) == IF completed THEN after ELSE before

\* BindPort whose write stays in the store when the collaborator's bind fails.
BindPortKeepsWrite(portID) ==
    /\ Ready
    /\ LET written == StoreSet(store, KeyPort(portID), PortSentinel)
       IN  \E out \in PortKeeperBindPort(portID) :
               /\ store' = written
               /\ caps' = out.caps
               /\ nextCap' = out.nextCap
               /\ bindHist' = IF out.ok THEN Append(bindHist, portID) ELSE bindHist
               /\ lastOp' = Called("BindPort", portID, <<>>, out.cap, out.ok)
    /\ nops' = nops + 1
    /\ UNCHANGED << keeperState, moduleAddr, claimed, activeHist, addrHist >>

BindPort(portID) ==
    /\ Ready
    /\ LET written == StoreSet(store, KeyPort(portID), PortSentinel)
       IN  \E out \in PortKeeperBindPort(portID) :
               /\ store' = HostUnitOfWork(store, written, out.ok)
               /\ caps' = out.caps
               /\ nextCap' = out.nextCap
               /\ bindHist' = IF out.ok THEN Append(bindHist, portID) ELSE bindHist
               /\ lastOp' = Called("BindPort", portID, <<>>, out.cap, out.ok)
    /\ nops' = nops + 1
    /\ UNCHANGED << keeperState, moduleAddr, claimed, activeHist, addrHist >>

IsBoundCall(portID) == Returns("IsBound", portID, <<>>, IsBound(portID), TRUE)

AuthenticateCapabilityCall(cap, name) ==
    Returns("AuthenticateCapability", <<>>, << cap, name >>,
            AuthenticateCapability(cap, name), TRUE)

ClaimCapability(cap, name) ==
    /\ Ready
    /\ LET out == ScopedClaimCapability(cap, name)
       IN  /\ claimed' = out.claimed
           /\ lastOp' = Called("ClaimCapability", <<>>, << cap, name >>, <<>>, out.ok)
    /\ nops' = nops + 1
    /\ UNCHANGED << keeperState, moduleAddr, store, caps, nextCap, activeHist,
                    addrHist, bindHist >>

GetActiveChannelIDCall(portID) ==
    Returns("GetActiveChannelID", portID, <<>>, GetActiveChannelID(portID), TRUE)

\* SetActiveChannelID keeping a record that is already there.
SetActiveChannelIDKeepFirst(portID, channelID) ==
    /\ Ready
    /\ store' = IF StoreHas(store, KeyActiveChannel(portID)) THEN store
                ELSE StoreSet(store, KeyActiveChannel(portID), channelID)
    /\ activeHist' =
           [activeHist EXCEPT ![portID] = Append(@, << "set", channelID >>)]
    /\ lastOp' = Called("SetActiveChannelID", portID, channelID, <<>>, TRUE)
    /\ nops' = nops + 1
    /\ UNCHANGED << keeperState, moduleAddr, caps, claimed, nextCap, addrHist,
                    bindHist >>

\* SetActiveChannelID adding a record beside the one already there.
SetActiveChannelIDAddRecord(portID, channelID) ==
    /\ Ready
    /\ store' = store \cup { << KeyActiveChannel(portID), channelID >> }
    /\ activeHist' =
           [activeHist EXCEPT ![portID] = Append(@, << "set", channelID >>)]
    /\ lastOp' = Called("SetActiveChannelID", portID, channelID, <<>>, TRUE)
    /\ nops' = nops + 1
    /\ UNCHANGED << keeperState, moduleAddr, caps, claimed, nextCap, addrHist,
                    bindHist >>

\* SetActiveChannelID writing under the owner-account key.
SetActiveChannelIDOwnerKey(portID, channelID) ==
    /\ Ready
    /\ store' = StoreSet(store, KeyOwnerAccount(portID), channelID)
    /\ activeHist' =
           [activeHist EXCEPT ![portID] = Append(@, << "set", channelID >>)]
    /\ lastOp' = Called("SetActiveChannelID", portID, channelID, <<>>, TRUE)
    /\ nops' = nops + 1
    /\ UNCHANGED << keeperState, moduleAddr, caps, claimed, nextCap, addrHist,
                    bindHist >>

SetActiveChannelID(portID, channelID) ==
    /\ Ready
    /\ store' = StoreSet(store, KeyActiveChannel(portID), channelID)
    /\ activeHist' =
           [activeHist EXCEPT ![portID] = Append(@, << "set", channelID >>)]
    /\ lastOp' = Called("SetActiveChannelID", portID, channelID, <<>>, TRUE)
    /\ nops' = nops + 1
    /\ UNCHANGED << keeperState, moduleAddr, caps, claimed, nextCap, addrHist,
                    bindHist >>

\* DeleteActiveChannelID removing the port's address record along with its
\* active-channel record.
DeleteActiveChannelIDBoth(portID) ==
    /\ Ready
    /\ store' = StoreDelete(StoreDelete(store, KeyActiveChannel(portID)),
                            KeyOwnerAccount(portID))
    /\ activeHist' = [activeHist EXCEPT ![portID] = Append(@, << "del", <<>> >>)]
    /\ lastOp' = Called("DeleteActiveChannelID", portID, <<>>, <<>>, TRUE)
    /\ nops' = nops + 1
    /\ UNCHANGED << keeperState, moduleAddr, caps, claimed, nextCap, addrHist,
                    bindHist >>

\* DeleteActiveChannelID deleting the owner-account key.
DeleteActiveChannelIDOwnerKey(portID) ==
    /\ Ready
    /\ store' = StoreDelete(store, KeyOwnerAccount(portID))
    /\ activeHist' = [activeHist EXCEPT ![portID] = Append(@, << "del", <<>> >>)]
    /\ lastOp' = Called("DeleteActiveChannelID", portID, <<>>, <<>>, TRUE)
    /\ nops' = nops + 1
    /\ UNCHANGED << keeperState, moduleAddr, caps, claimed, nextCap, addrHist,
                    bindHist >>

\* DeleteActiveChannelID deleting the port key.
DeleteActiveChannelIDPortKey(portID) ==
    /\ Ready
    /\ store' = StoreDelete(store, KeyPort(portID))
    /\ activeHist' = [activeHist EXCEPT ![portID] = Append(@, << "del", <<>> >>)]
    /\ lastOp' = Called("DeleteActiveChannelID", portID, <<>>, <<>>, TRUE)
    /\ nops' = nops + 1
    /\ UNCHANGED << keeperState, moduleAddr, caps, claimed, nextCap, addrHist,
                    bindHist >>

DeleteActiveChannelID(portID) ==
    /\ Ready
    /\ store' = StoreDelete(store, KeyActiveChannel(portID))
    /\ activeHist' = [activeHist EXCEPT ![portID] = Append(@, << "del", <<>> >>)]
    /\ lastOp' = Called("DeleteActiveChannelID", portID, <<>>, <<>>, TRUE)
    /\ nops' = nops + 1
    /\ UNCHANGED << keeperState, moduleAddr, caps, claimed, nextCap, addrHist,
                    bindHist >>

IsActiveChannelCall(portID) ==
    Returns("IsActiveChannel", portID, <<>>, IsActiveChannel(portID), TRUE)

GetInterchainAccountAddressCall(portID) ==
    Returns("GetInterchainAccountAddress", portID, <<>>,
            GetInterchainAccountAddress(portID), TRUE)

\* SetInterchainAccountAddress writing only for a port that is bound.
SetInterchainAccountAddressIfBound(portID, address) ==
    /\ Ready
    /\ store' = IF IsBound(portID)
                THEN StoreSet(store, KeyOwnerAccount(portID), address)
                ELSE store
    /\ addrHist' = [addrHist EXCEPT ![portID] = Append(@, address)]
    /\ lastOp' = Called("SetInterchainAccountAddress", portID, address, <<>>, TRUE)
    /\ nops' = nops + 1
    /\ UNCHANGED << keeperState, moduleAddr, caps, claimed, nextCap, activeHist,
                    bindHist >>

SetInterchainAccountAddress(portID, address) ==
    /\ Ready
    /\ store' = StoreSet(store, KeyOwnerAccount(portID), address)
    /\ addrHist' = [addrHist EXCEPT ![portID] = Append(@, address)]
    /\ lastOp' = Called("SetInterchainAccountAddress", portID, address, <<>>, TRUE)
    /\ nops' = nops + 1
    /\ UNCHANGED << keeperState, moduleAddr, caps, claimed, nextCap, activeHist,
                    bindHist >>

\* NegotiateAppVersion storing the address it derived for the port.
NegotiateAppVersionCallStoresAddress(order, connectionID, portID, counterparty, proposedVersion) ==
    LET out == NegotiateAppVersion(order, connectionID, portID, counterparty,
                                   proposedVersion)
    IN  /\ Ready
        /\ store' = IF out.err.kind = "nil"
                    THEN StoreSet(store, KeyOwnerAccount(portID), out.version)
                    ELSE store
        /\ lastOp' = Called("NegotiateAppVersion", counterparty.PortId,
                            proposedVersion, out, out.err.kind = "nil")
        /\ nops' = nops + 1
        /\ UNCHANGED << keeperState, moduleAddr, caps, claimed, nextCap,
                        activeHist, addrHist, bindHist >>

NegotiateAppVersionCall(order, connectionID, portID, counterparty, proposedVersion) ==
    LET out == NegotiateAppVersion(order, connectionID, portID, counterparty,
                                   proposedVersion)
    IN  Returns("NegotiateAppVersion", counterparty.PortId, proposedVersion,
                out, out.err.kind = "nil")

\* The capability collaborator drops a live capability and the claims on it.
RevokeCapability(name) ==
    /\ Ready
    /\ GetCapability(name).found
    /\ caps' = { c \in caps : c[1] # name }
    /\ claimed' = { cl \in claimed : cl[1] # GetCapability(name).cap }
    /\ lastOp' = Called("RevokeCapability", <<>>, name, <<>>, TRUE)
    /\ nops' = nops + 1
    /\ UNCHANGED << keeperState, moduleAddr, store, nextCap, activeHist, addrHist,
                    bindHist >>

Next ==
    \/ NewKeeper
    \/ GetAllPortsCall
    \/ \E p \in PortIDs : BindPort(p)
    \/ \E p \in PortIDs : IsBoundCall(p)
    \/ \E c \in IssuedCaps, p \in PortIDs : AuthenticateCapabilityCall(c, PortPath(p))
    \/ \E c \in IssuedCaps, p \in PortIDs : ClaimCapability(c, PortPath(p))
    \/ \E p \in PortIDs : GetActiveChannelIDCall(p)
    \/ \E p \in PortIDs, c \in ChannelIDs : SetActiveChannelID(p, c)
    \/ \E p \in PortIDs : DeleteActiveChannelID(p)
    \/ \E p \in PortIDs : IsActiveChannelCall(p)
    \/ \E p \in PortIDs : GetInterchainAccountAddressCall(p)
    \/ \E p \in PortIDs, a \in Addresses : SetInterchainAccountAddress(p, a)
    \/ \E o \in Orders, k \in ConnectionIDs, p \in PortIDs, cp \in PortIDs,
          v \in ProposedVersions :
          NegotiateAppVersionCall(o, k, p, [PortId |-> cp, ChannelId |-> <<>>], v)
    \/ \E p \in PortIDs : RevokeCapability(PortPath(p))

Spec == Init /\ [][Next]_vars

----------------------------------------------------------------------------
(* Properties *)

Last(h) == h[Len(h)]

Mutators ==
    { "SetActiveChannelID", "DeleteActiveChannelID", "SetInterchainAccountAddress" }

\* C1: after SetActiveChannelID(p, c1) and then SetActiveChannelID(p, c2),
\* whatever was done to other ports in between, GetActiveChannelID(p) returns
\* (c2, true) and the store holds exactly one active-channel record for p.
LastWriteWins ==
    \A p \in PortIDs :
        LET h == activeHist[p]
        IN  (Len(h) >= 2 /\ Last(h)[1] = "set" /\ h[Len(h) - 1][1] = "set")
            => /\ GetActiveChannelID(p) = << Last(h)[2], TRUE >>
               /\ Cardinality({ kv \in store : kv[1] = KeyActiveChannel(p) }) = 1
               /\ (lastOp.op = "GetActiveChannelID" /\ lastOp.port = p)
                  => lastOp.ret = << Last(h)[2], TRUE >>

\* Two different channels were set for a port, one after the other, and a
\* GetActiveChannelID call on it returned the second.
LastWriteWinsWitness ==
    \E p \in PortIDs :
        /\ Len(activeHist[p]) = 2
        /\ activeHist[p][1][1] = "set"
        /\ activeHist[p][2][1] = "set"
        /\ activeHist[p][1][2] # activeHist[p][2][2]
        /\ lastOp.op = "GetActiveChannelID"
        /\ lastOp.port = p
        /\ lastOp.ret = << activeHist[p][2][2], TRUE >>

\* C2: in every reachable state each port has at most one active-channel
\* record, so at most one channel identifier is reported active for it.
AtMostOneActiveRecord ==
    \A p \in PortIDs :
        Cardinality({ kv \in store : kv[1] = KeyActiveChannel(p) }) <= 1

\* A port whose active channel was set to both channel identifiers holds one record.
AtMostOneActiveRecordWitness ==
    \E p \in PortIDs :
        /\ \A c \in ChannelIDs :
               \E i \in 1..Len(activeHist[p]) : activeHist[p][i] = << "set", c >>
        /\ Cardinality({ kv \in store : kv[1] = KeyActiveChannel(p) }) = 1

\* C3: once DeleteActiveChannelID(p) has run, and until the next
\* SetActiveChannelID(p, _), IsActiveChannel(p) is false and
\* GetActiveChannelID(p) reports not-found, whatever was set before.
DeleteClearsActiveChannel ==
    \A p \in PortIDs :
        LET h == activeHist[p]
        IN  (Len(h) >= 1 /\ Last(h)[1] = "del")
            => /\ ~ IsActiveChannel(p)
               /\ GetActiveChannelID(p) = << <<>>, FALSE >>
               /\ (lastOp.op = "IsActiveChannel" /\ lastOp.port = p)
                  => lastOp.ret = FALSE
               /\ (lastOp.op = "GetActiveChannelID" /\ lastOp.port = p)
                  => lastOp.ret = << <<>>, FALSE >>

\* A channel was set for a port, then deleted, and IsActiveChannel returned false.
DeleteClearsActiveChannelWitness ==
    \E p \in PortIDs :
        /\ Len(activeHist[p]) = 2
        /\ activeHist[p][1][1] = "set"
        /\ activeHist[p][2][1] = "del"
        /\ lastOp.op = "IsActiveChannel"
        /\ lastOp.port = p
        /\ lastOp.ret = FALSE

\* C4: in the state a BindPort(p) call that returned leaves, IsBound(p) is true.
BindPortThenIsBound ==
    (lastOp.op = "BindPort" /\ lastOp.ok) => IsBound(lastOp.port)

\* A BindPort call has just completed and its port is bound.
BindPortThenIsBoundWitness ==
    /\ lastOp.op = "BindPort"
    /\ lastOp.ok
    /\ IsBound(lastOp.port)

\* C5 as stated: once SetInterchainAccountAddress(p, a) has run for the first
\* time, GetInterchainAccountAddress(p) returns (a, true) in every later state.
AddressNeverOverwritten ==
    \A p \in PortIDs :
        addrHist[p] # <<>>
            => GetInterchainAccountAddress(p) = << Head(addrHist[p]), TRUE >>

\* C5 as amended: what GetInterchainAccountAddress(p) returns changes only in
\* a SetInterchainAccountAddress call on p itself, which makes it the address
\* passed; no operation removes an address record or changes another port's.
AddressChangesOnlyBySet ==
    [][ \A p \in PortIDs :
            GetInterchainAccountAddress(p)' # GetInterchainAccountAddress(p)
                => /\ lastOp'.op = "SetInterchainAccountAddress"
                   /\ lastOp'.port = p
                   /\ GetInterchainAccountAddress(p)' = << lastOp'.arg, TRUE >>
      ]_vars

\* A port's address was set and then set to a different one, which is now returned.
AddressChangesOnlyBySetWitness ==
    \E p \in PortIDs :
        /\ Len(addrHist[p]) = 2
        /\ addrHist[p][1] # addrHist[p][2]
        /\ lastOp.op = "SetInterchainAccountAddress"
        /\ lastOp.port = p
        /\ GetInterchainAccountAddress(p) = << addrHist[p][2], TRUE >>

\* Whether the last mutating call changed a record: a set always writes one,
\* a delete removes one when the call before it on that port was a set.
TookEffect ==
    /\ lastOp.op \in Mutators
    /\ lastOp.op = "DeleteActiveChannelID"
           => LET h == activeHist[lastOp.port]
              IN  Len(h) >= 2 /\ h[Len(h) - 1][1] = "set"

\* C6 as stated: an active-channel or address record of p is written or
\* removed only while a capability exists for p's port path.
MutationNeedsCapability ==
    TookEffect => IsBound(lastOp.port)

\* C6 as amended: SetActiveChannelID, DeleteActiveChannelID and
\* SetInterchainAccountAddress check no capability. Each takes effect whether
\* or not a capability exists for the port's path, and none of them changes
\* the capability collaborator's state.
MutatorsIgnoreCapabilities ==
    [][ \A p \in PortIDs :
            (nops' # nops /\ lastOp'.op \in Mutators /\ lastOp'.port = p)
                => /\ UNCHANGED << caps, claimed, nextCap >>
                   /\ lastOp'.op = "SetActiveChannelID"
                          => GetActiveChannelID(p)' = << lastOp'.arg, TRUE >>
                   /\ lastOp'.op = "DeleteActiveChannelID"
                          => GetActiveChannelID(p)' = << <<>>, FALSE >>
                   /\ lastOp'.op = "SetInterchainAccountAddress"
                          => GetInterchainAccountAddress(p)' = << lastOp'.arg, TRUE >>
      ]_vars

\* An address was written for a port for which no capability exists.
MutatorsIgnoreCapabilitiesWitness ==
    /\ lastOp.op = "SetInterchainAccountAddress"
    /\ ~ IsBound(lastOp.port)
    /\ GetInterchainAccountAddress(lastOp.port) = << lastOp.arg, TRUE >>

\* The ports passed to the BindPort calls that completed.
BoundPorts == { bindHist[i] : i \in 1..Len(bindHist) }

\* The identifiers GetAllPorts lists.
ListedPorts == UNION { { ports[i] : i \in 1..Len(ports) } : ports \in { GetAllPorts } }

SlashFree(portID) == \A i \in 1..Len(portID) : portID[i] # "/"

AddressRoundTrip ==
    \A p \in PortIDs :
        LET expected == IF addrHist[p] = <<>> THEN << <<>>, FALSE >>
                        ELSE << Last(addrHist[p]), TRUE >>
        IN  /\ GetInterchainAccountAddress(p)[2] = expected[2]
            /\ expected[2] => GetInterchainAccountAddress(p) = expected
            /\ (lastOp.op = "GetInterchainAccountAddress" /\ lastOp.port = p)
               => /\ lastOp.ret[2] = expected[2]
                  /\ expected[2] => lastOp.ret = expected

\* An address was set for a port and a GetInterchainAccountAddress call returned it.
AddressRoundTripWitness ==
    \E p \in PortIDs :
        /\ addrHist[p] # <<>>
        /\ lastOp.op = "GetInterchainAccountAddress"
        /\ lastOp.port = p
        /\ lastOp.ret = << Last(addrHist[p]), TRUE >>

\* C9: NegotiateAppVersion succeeds exactly when the proposed version equals
\* VersionPrefix; on success it returns NewAppVersion of the prefix and the
\* address generated from the module account address and the counterparty
\* port identifier, whatever the other arguments are.
NegotiateSucceedsIffExact ==
    lastOp.op = "NegotiateAppVersion"
        => /\ lastOp.ok <=> lastOp.arg = VersionPrefix
           /\ lastOp.ok <=> lastOp.ret.err = NoError
           /\ lastOp.ok
                  => lastOp.ret.version
                         = NewAppVersion(VersionPrefix,
                               AccAddressString(GenerateAddress(moduleAddr, lastOp.port)))

\* A negotiation with the supported version returned the canonical version.
NegotiateSucceedsIffExactWitness ==
    /\ lastOp.op = "NegotiateAppVersion"
    /\ lastOp.arg = VersionPrefix
    /\ lastOp.ok
    /\ lastOp.ret.version
           = NewAppVersion(VersionPrefix,
                 AccAddressString(GenerateAddress(moduleAddr, lastOp.port)))

\* C10: for every proposed version other than VersionPrefix,
\* NegotiateAppVersion returns the empty version and an invalid-version error
\* that carries the expected prefix and the string received.
NegotiateMismatchFails ==
    (lastOp.op = "NegotiateAppVersion" /\ lastOp.arg # VersionPrefix)
        => /\ ~ lastOp.ok
           /\ lastOp.ret.version = <<>>
           /\ lastOp.ret.err = [kind |-> "ErrInvalidVersion",
                                expected |-> VersionPrefix, got |-> lastOp.arg]

\* A negotiation with a longer string that starts with the prefix failed.
NegotiateMismatchFailsWitness ==
    /\ lastOp.op = "NegotiateAppVersion"
    /\ lastOp.arg = VersionPrefix \o << "x" >>
    /\ ~ lastOp.ok
    /\ lastOp.ret.version = <<>>
    /\ lastOp.ret.err.kind = "ErrInvalidVersion"

\* C11: NegotiateAppVersion depends only on the proposed version, the module
\* account address and the counterparty port identifier. Every call, whatever
\* its channel ordering, connection identifier and local port identifier,
\* returns what a call with one fixed ordering, connection and local port
\* returns for the same proposed version and counterparty port; and no step
\* that changes the store or the capability collaborator changes what
\* NegotiateAppVersion returns for any proposed version and counterparty port.
NegotiateDependsOnlyOnInputs ==
    [][ /\ (nops' # nops /\ lastOp'.op = "NegotiateAppVersion")
               => lastOp'.ret =
                      NegotiateAppVersion("ORDERED", << "k", "0" >>, << "a" >>,
                          [PortId |-> lastOp'.port, ChannelId |-> <<>>], lastOp'.arg)
        /\ (store' # store \/ caps' # caps \/ claimed' # claimed)
               => \A v \in ProposedVersions, cp \in PortIDs :
                      NegotiateAppVersion("ORDERED", << "k", "0" >>, << "a" >>,
                          [PortId |-> cp, ChannelId |-> <<>>], v)'
                      = NegotiateAppVersion("ORDERED", << "k", "0" >>, << "a" >>,
                            [PortId |-> cp, ChannelId |-> <<>>], v)
      ]_vars

\* A negotiation succeeded on a store that holds an address and an active channel.
NegotiateDependsOnlyOnInputsWitness ==
    /\ lastOp.op = "NegotiateAppVersion"
    /\ lastOp.ok
    /\ \E p \in PortIDs : addrHist[p] # <<>>
    /\ \E p \in PortIDs : IsActiveChannel(p)
    /\ lastOp.ret = NegotiateAppVersion("UNORDERED", << "k", "1" >>, << "b" >>,
                        [PortId |-> lastOp.port, ChannelId |-> <<>>], lastOp.arg)

\* C12: a NegotiateAppVersion call, successful or not, changes no port,
\* active-channel or address record and nothing in the capability collaborator.
NegotiateHasNoSideEffects ==
    [][ (nops' # nops /\ lastOp'.op = "NegotiateAppVersion")
            => UNCHANGED << store, caps, claimed, nextCap, keeperState, moduleAddr >>
      ]_vars

\* A negotiation failed on a version mismatch while the store held a port
\* record, an active channel and a live capability.
NegotiateHasNoSideEffectsWitness ==
    /\ lastOp.op = "NegotiateAppVersion"
    /\ ~ lastOp.ok
    /\ Len(GetAllPorts) = 1
    /\ caps # {}
    /\ \E p \in PortIDs : IsActiveChannel(p)

\* C13: for the capability C that BindPort(p) returned and that is live and
\* unclaimed, ClaimCapability(C, n) under the port's path n succeeds, after
\* which AuthenticateCapability(C, n) is true and AuthenticateCapability(C, n')
\* is false for every other name n'; ClaimCapability of a capability that is
\* already claimed fails and claims nothing.
ClaimThenAuthenticate ==
    [][ \A c \in IssuedCaps, p \in PortIDs :
            ( /\ nops' # nops
              /\ lastOp'.op = "ClaimCapability"
              /\ lastOp'.arg = << c, PortPath(p) >> )
            => /\ (\E cl \in claimed : cl[1] = c)
                      => (~ lastOp'.ok /\ claimed' = claimed)
               /\ ( /\ GetCapability(PortPath(p)) = [cap |-> c, found |-> TRUE]
                    /\ ~ \E cl \in claimed : cl[1] = c )
                      => /\ lastOp'.ok
                         /\ AuthenticateCapability(c, PortPath(p))'
                         /\ \A q \in PortIDs \ {p} :
                                ~ AuthenticateCapability(c, PortPath(q))'
      ]_vars

\* A port was bound, its capability claimed under the port's path, and a
\* second claim of the same capability failed.
ClaimThenAuthenticateWitness ==
    /\ lastOp.op = "ClaimCapability"
    /\ ~ lastOp.ok
    /\ \E p \in PortIDs :
           /\ GetCapability(PortPath(p)) = [cap |-> lastOp.arg[1], found |-> TRUE]
           /\ AuthenticateCapability(lastOp.arg[1], PortPath(p))
           /\ \A q \in PortIDs \ {p} :
                  ~ AuthenticateCapability(lastOp.arg[1], PortPath(q))

\* The port records of the store.
PortRecords == { kv \in store : HasPrefix(kv[1], PortKeyPrefix) }

\* Port records come from completed BindPort calls only, none is ever removed,
\* and a step adds at most the record of the port its BindPort call bound.
PortRecordsStep ==
    \A before \in { PortRecords }, after \in { PortRecords' } :
        /\ before \subseteq after
        /\ after # before
               => /\ lastOp'.op = "BindPort"
                  /\ after = before \cup { << KeyPort(lastOp'.port), PortSentinel >> }
                  /\ \E i \in 1..Len(bindHist') : bindHist'[i] = lastOp'.port
        /\ \A kv \in after : \E b \in BoundPorts' : kv = << KeyPort(b), PortSentinel >>

\* The identifiers a GetAllPorts result lists.
Listed(ports) == { ports[i] : i \in 1..Len(ports) }

\* GetAllPorts does not shrink in a step.
GetAllPortsGrows(before, after) ==
    /\ Len(after) >= Len(before)
    /\ Listed(before) \subseteq Listed(after)

NoKeeperWithoutModuleAddress ==
    /\ keeperState = "panicked" <=> (moduleAddr = <<>> /\ lastOp.op = "NewKeeper")
    /\ keeperState = "ready" => moduleAddr # <<>>
    /\ lastOp.op = "NewKeeper" => (lastOp.ok <=> moduleAddr # <<>>)
    /\ moduleAddr = <<>>
           => /\ lastOp.op \in { "none", "NewKeeper" }
              /\ nops = 0
              /\ store = {} /\ caps = {} /\ claimed = {}
              /\ bindHist = <<>>

\* Construction was attempted without a module address and panicked.
NoKeeperWithoutModuleAddressWitness ==
    /\ keeperState = "panicked"
    /\ moduleAddr = <<>>
    /\ lastOp = Called("NewKeeper", <<>>, <<>>, <<>>, FALSE)

\* C16: IsBound(p) is true exactly when the capability collaborator holds a
\* capability for p's port path, whatever the port record says: once the
\* capability is revoked IsBound(p) is false, also when the port record
\* remains and GetAllPorts still lists p.
IsBoundFollowsCapability ==
    /\ \A p \in PortIDs : IsBound(p) <=> \E c \in caps : c[1] = PortPath(p)
    /\ lastOp.op = "IsBound"
           => lastOp.ret = (\E c \in caps : c[1] = PortPath(lastOp.port))
    /\ lastOp.op = "RevokeCapability"
           => \A p \in PortIDs : lastOp.arg = PortPath(p) => ~ IsBound(p)

\* IsBound answered false for a port whose capability was revoked while its
\* port record remains and GetAllPorts lists it.
IsBoundFollowsCapabilityWitness ==
    /\ lastOp.op = "IsBound"
    /\ lastOp.ret = FALSE
    /\ StoreHas(store, KeyPort(lastOp.port))
    /\ lastOp.port \in Listed(GetAllPorts)
    /\ lastOp.port \in BoundPorts

\* What the three lookups say about one port in the current state.
LookupsTotal(p) ==
    \A active \in { GetActiveChannelID(p) }, address \in { GetInterchainAccountAddress(p) } :
        /\ IsActiveChannel(p) = active[2]
        /\ active[2] <=> \E kv \in store : kv[1] = KeyActiveChannel(p)
        /\ address[2] <=> \E kv \in store : kv[1] = KeyOwnerAccount(p)
        /\ ~ active[2] => active = << <<>>, FALSE >>
        /\ ~ address[2] => address = << <<>>, FALSE >>
        /\ active[2] => active[1] \in ChannelIDs
        /\ address[2] => address[1] \in Addresses

\* A step that is one of the three lookups returns what the lookup gives in
\* the state it was called in, reports no error and changes no state.
LookupStep ==
    (nops' # nops /\ lastOp'.op \in { "GetActiveChannelID", "IsActiveChannel",
                                      "GetInterchainAccountAddress" })
        => /\ UNCHANGED << store, caps, claimed, nextCap, keeperState, moduleAddr >>
           /\ lastOp'.ok
           /\ \A p \in PortIDs : lastOp'.port = p =>
                  lastOp'.ret = CASE lastOp'.op = "GetActiveChannelID" -> GetActiveChannelID(p)
                                  [] lastOp'.op = "IsActiveChannel" -> IsActiveChannel(p)
                                  [] OTHER -> GetInterchainAccountAddress(p)

\* C17: in every reachable state and for every port, IsActiveChannel equals
\* the found flag of GetActiveChannelID, which is true exactly when an
\* active-channel record exists; with no record GetActiveChannelID and
\* GetInterchainAccountAddress return the empty string and found = false,
\* never an error; and none of these reads changes any state.
LookupsAreTotalReads ==
    /\ [](\A p \in PortIDs : LookupsTotal(p))
    /\ [][LookupStep]_vars

\* IsActiveChannel answered false for a port without an active-channel record
\* while another port has one.
LookupsAreTotalReadsWitness ==
    /\ lastOp.op = "IsActiveChannel"
    /\ lastOp.ret = FALSE
    /\ ~ StoreHas(store, KeyActiveChannel(lastOp.port))
    /\ GetInterchainAccountAddress(lastOp.port) = << <<>>, FALSE >>
    /\ \E q \in PortIDs : IsActiveChannel(q)

\* The one key a mutating call on port p may write or delete.
OwnKey(op, p) ==
    IF op = "SetInterchainAccountAddress" THEN KeyOwnerAccount(p)
    ELSE KeyActiveChannel(p)

\* C18: SetActiveChannelID(p, c) and DeleteActiveChannelID(p) leave unchanged
\* the address record of p, all port records and the active-channel and
\* address records of every other port; SetInterchainAccountAddress(p, a)
\* leaves unchanged the active-channel record of p, all port records and every
\* other port's records. The lookups on the untouched records return after
\* the call what they returned before it.
MutationTouchesOwnRecordOnly ==
    [][ \A p \in PortIDs :
            (nops' # nops /\ lastOp'.op \in Mutators /\ lastOp'.port = p)
                => /\ { kv \in store' : kv[1] # OwnKey(lastOp'.op, p) }
                          = { kv \in store : kv[1] # OwnKey(lastOp'.op, p) }
                   /\ PortRecords' = PortRecords
                   /\ \A q \in PortIDs \ { p } :
                          /\ GetActiveChannelID(q)' = GetActiveChannelID(q)
                          /\ GetInterchainAccountAddress(q)' = GetInterchainAccountAddress(q)
                   /\ lastOp'.op = "SetInterchainAccountAddress"
                          => GetActiveChannelID(p)' = GetActiveChannelID(p)
                   /\ lastOp'.op # "SetInterchainAccountAddress"
                          => GetInterchainAccountAddress(p)' = GetInterchainAccountAddress(p)
      ]_vars

\* DeleteActiveChannelID removed the active-channel record of a port whose
\* address is still returned.
MutationTouchesOwnRecordOnlyWitness ==
    /\ lastOp.op = "DeleteActiveChannelID"
    /\ TookEffect
    /\ GetActiveChannelID(lastOp.port) = << <<>>, FALSE >>
    /\ GetInterchainAccountAddress(lastOp.port)[2]
    /\ GetInterchainAccountAddress(lastOp.port)[1] = Last(addrHist[lastOp.port])

====
